---- MODULE Spec2Model ----
(***************************************************************************)
(* A model of mini-claude-code: the task-list manager (TodoManager), the   *)
(* tool implementations and their dispatch (execute_tool), the agent loop  *)
(* (agent_loop) and the interactive session (main) of v2_todo_agent.py,    *)
(* with run_bash of v1_basic_agent.py beside the second agent's.           *)
(*                                                                         *)
(* Values the gateway sends are JSON values.  A JSON value is a record     *)
(* tagged by its type: a scalar keeps its Python str() text in v, a list   *)
(* keeps its elements in l, a task item (a dict) keeps its fields in f, a  *)
(* function whose domain is the set of keys present.                       *)
(***************************************************************************)
EXTENDS Integers, Sequences, FiniteSets, TLC

VARIABLES
    todo_items,            \* TODO.items
    t_pc, t_arg, t_prev, t_out,   \* a direct call of one function: where it
                                  \* is, its argument, the state before, its result
    fs,                    \* the files under and around WORKDIR
    history,               \* main's history, agent_loop's messages
    first_message,         \* main's first_message
    rounds_without_todo,   \* the module's global counter
    pc,                    \* where the session is
    response,              \* agent_loop's response
    results,               \* agent_loop's results
    used_todo,             \* agent_loop's used_todo
    next_id,               \* the gateway's tool-call id counter
    n_calls,               \* tool calls the gateway has emitted so far
    last_error,            \* what main's except clause printed last
    gw_log,                \* how each gateway call of this outer turn ended
    dispatched,            \* ids of the calls execute_tool was entered for
    ended_by               \* what ended the session, "" while it runs

vars == <<todo_items, t_pc, t_arg, t_prev, t_out, fs, history, first_message,
          rounds_without_todo, pc, response, results, used_todo, next_id,
          n_calls, last_error, gw_log, dispatched, ended_by>>

todoVars == <<t_pc, t_arg, t_prev, t_out>>
loopVars == <<fs, history, first_message, rounds_without_todo, pc, response,
              results, used_todo, next_id, n_calls, last_error, gw_log,
              dispatched, ended_by>>

(***************************************************************************)
(* JSON values                                                             *)
(***************************************************************************)
JStr(s) == [t |-> "str", v |-> s]
JInt(n) == [t |-> "int", v |-> ToString(n), n |-> n]
JNull == [t |-> "null", v |-> "None"]
JList(l) == [t |-> "list", l |-> l]
JObj(f) == [t |-> "obj", f |-> f]

\* str(x) of a scalar
PyStr(x) == x.v

\* item.get(key, default), then str()
GetStr(item, key, default) ==
    IF key \in DOMAIN item.f THEN PyStr(item.f[key]) ELSE default

(***************************************************************************)
(* Python string methods                                                   *)
(***************************************************************************)
Whitespace == {" ", "\t", "\n", "\r", "\f"}

RECURSIVE LStrip(_)
LStrip(s) ==
    IF s = "" THEN ""
    ELSE IF Head(s) \in Whitespace THEN LStrip(Tail(s)) ELSE s

RECURSIVE RStrip(_)
RStrip(s) ==
    IF s = "" THEN ""
    ELSE IF SubSeq(s, Len(s), Len(s)) \in Whitespace
         THEN RStrip(SubSeq(s, 1, Len(s) - 1))
         ELSE s

\* str.strip()
Strip(s) == RStrip(LStrip(s))

UpperAlpha == "ABCDEFGHIJKLMNOPQRSTUVWXYZ"
LowerAlpha == "abcdefghijklmnopqrstuvwxyz"

UpperSet == {SubSeq(UpperAlpha, i, i) : i \in 1..Len(UpperAlpha)}

LowerOf ==
    [c \in UpperSet |->
        LET i == CHOOSE j \in 1..Len(UpperAlpha) : SubSeq(UpperAlpha, j, j) = c
        IN  SubSeq(LowerAlpha, i, i)]

LowerChar(c) == IF c \in UpperSet THEN LowerOf[c] ELSE c

RECURSIVE Lower(_)
\* str.lower()
Lower(s) == IF s = "" THEN "" ELSE LowerChar(Head(s)) \o Lower(Tail(s))

RECURSIVE Join(_, _)
\* sep.join(lines)
Join(sep, lines) ==
    IF lines = <<>> THEN ""
    ELSE IF Len(lines) = 1 THEN lines[1]
    ELSE lines[1] \o sep \o Join(sep, Tail(lines))

EndsWith(s, suffix) ==
    /\ Len(suffix) <= Len(s)
    /\ SubSeq(s, Len(s) - Len(suffix) + 1, Len(s)) = suffix

StartsWith(s, prefix) ==
    /\ Len(prefix) <= Len(s)
    /\ SubSeq(s, 1, Len(prefix)) = prefix

(***************************************************************************)
(* TodoManager                                                             *)
(***************************************************************************)
MaxTodos == 20

Statuses == {"pending", "in_progress", "completed"}

Count(seq, status) == Cardinality({i \in DOMAIN seq : seq[i].status = status})

RenderLine(item) ==
    IF item.status = "completed" THEN "[x] " \o item.content
    ELSE IF item.status = "in_progress"
         THEN "[>] " \o item.content \o " <- " \o item.activeForm
         ELSE "[ ] " \o item.content

\* render counting the items that are not pending
render_miscount(items) ==
    IF items = <<>> THEN "No todos."
    ELSE LET lines == [i \in DOMAIN items |-> RenderLine(items[i])]
             completed == Len(items) - Count(items, "pending")
         IN  Join("\n", Append(lines,
                 "\n(" \o ToString(completed) \o "/" \o ToString(Len(items))
                       \o " completed)"))

\* TodoManager.render
render(items) ==
    IF items = <<>> THEN "No todos."
    ELSE LET lines == [i \in DOMAIN items |-> RenderLine(items[i])]
             completed == Count(items, "completed")
         IN  Join("\n", Append(lines,
                 "\n(" \o ToString(completed) \o "/" \o ToString(Len(items))
                       \o " completed)"))

\* One pass of update's loop body over the item at 0-based position i: the
\* ValueError it raises, or the validated item.
ItemStatus(item) == Lower(GetStr(item, "status", "pending"))

ValidateItem(i, item) ==
    IF item.t # "obj"
    THEN [raised |-> TRUE, msg |-> "Item " \o ToString(i) \o " must be an object"]
    ELSE LET content == Strip(GetStr(item, "content", ""))
             status == ItemStatus(item)
             active_form == Strip(GetStr(item, "activeForm", ""))
         IN  IF content = ""
             THEN [raised |-> TRUE,
                   msg |-> "Item " \o ToString(i) \o ": content required"]
             ELSE IF status \notin Statuses
             THEN [raised |-> TRUE,
                   msg |-> "Item " \o ToString(i) \o ": invalid status '"
                           \o status \o "'"]
             ELSE IF active_form = ""
             THEN [raised |-> TRUE,
                   msg |-> "Item " \o ToString(i) \o ": activeForm required"]
             ELSE [raised |-> FALSE,
                   item |-> [content |-> content, status |-> status,
                             activeForm |-> active_form]]

RECURSIVE ValidateFrom(_, _, _)
\* update's for loop from 1-based position k on, validated being the items
\* appended so far: the first ValueError, or every item validated.
ValidateFrom(l, k, validated) ==
    IF k > Len(l) THEN [raised |-> FALSE, validated |-> validated]
    ELSE LET r == ValidateItem(k - 1, l[k])
         IN  IF r.raised THEN r
             ELSE ValidateFrom(l, k + 1, Append(validated, r.item))

LengthCheck_off_by_one(validated) == Len(validated) > MaxTodos + 1

LengthCheck(validated) == Len(validated) > MaxTodos

InProgressCheck(validated) == Count(validated, "in_progress") > 1

\* update assigning self.items before the length and in_progress checks
update_commits_early(items, stored) ==
    IF items.t # "list"
    THEN [raised |-> TRUE, msg |-> "Items must be a list", items |-> stored]
    ELSE LET r == ValidateFrom(items.l, 1, <<>>)
         IN  IF r.raised
             THEN [raised |-> TRUE, msg |-> r.msg, items |-> stored]
             ELSE IF LengthCheck(r.validated)
             THEN [raised |-> TRUE, msg |-> "Max 20 todos allowed",
                   items |-> r.validated]
             ELSE IF InProgressCheck(r.validated)
             THEN [raised |-> TRUE, msg |-> "Only one task can be in_progress",
                   items |-> r.validated]
             ELSE [raised |-> FALSE, msg |-> render(r.validated),
                   items |-> r.validated]

\* update testing the length of the list before it looks at the items
update_length_first(items, stored) ==
    IF items.t # "list"
    THEN [raised |-> TRUE, msg |-> "Items must be a list", items |-> stored]
    ELSE IF Len(items.l) > MaxTodos
    THEN [raised |-> TRUE, msg |-> "Max 20 todos allowed", items |-> stored]
    ELSE LET r == ValidateFrom(items.l, 1, <<>>)
         IN  IF r.raised
             THEN [raised |-> TRUE, msg |-> r.msg, items |-> stored]
             ELSE IF InProgressCheck(r.validated)
             THEN [raised |-> TRUE, msg |-> "Only one task can be in_progress",
                   items |-> stored]
             ELSE [raised |-> FALSE, msg |-> render(r.validated),
                   items |-> r.validated]

\* TodoManager.update(items) on the stored list: what it raises or returns,
\* and the stored list afterwards.
update(items, stored) ==
    IF items.t # "list"
    THEN [raised |-> TRUE, msg |-> "Items must be a list", items |-> stored]
    ELSE LET r == ValidateFrom(items.l, 1, <<>>)
         IN  IF r.raised
             THEN [raised |-> TRUE, msg |-> r.msg, items |-> stored]
             ELSE IF LengthCheck(r.validated)
             THEN [raised |-> TRUE, msg |-> "Max 20 todos allowed",
                   items |-> stored]
             ELSE IF InProgressCheck(r.validated)
             THEN [raised |-> TRUE, msg |-> "Only one task can be in_progress",
                   items |-> stored]
             ELSE [raised |-> FALSE, msg |-> render(r.validated),
                   items |-> r.validated]

(***************************************************************************)
(* Paths and files.  A path is kept as the sequence of its components from *)
(* the filesystem root; fs is the set of files, each a path and its text.  *)
(***************************************************************************)
WORKDIR == <<"work">>

RECURSIVE SplitOn(_, _, _)
\* s.split(sep) for a one-character sep; cur is the piece being read
SplitOn(s, sep, cur) ==
    IF s = "" THEN <<cur>>
    ELSE IF Head(s) = sep THEN <<cur>> \o SplitOn(Tail(s), sep, "")
    ELSE SplitOn(Tail(s), sep, cur \o Head(s))

\* The symbolic links of the filesystem, each resolved to where it points:
\* one inside the workspace that leads out of it, one that stays inside.
Links ==
    { [path |-> <<"work", "out">>, target |-> <<"etc">>],
      [path |-> <<"work", "in">>, target |-> <<"work", "sub">>] }

\* where the path is, a symbolic link followed
Follow(path) ==
    IF \E l \in Links : l.path = path
    THEN (CHOOSE l \in Links : l.path = path).target
    ELSE path

RECURSIVE Normalize(_, _)
\* Path.resolve(): "" and "." dropped, ".." popping, symbolic links followed
Normalize(parts, acc) ==
    IF parts = <<>> THEN acc
    ELSE LET h == Head(parts)
         IN  IF h = "" \/ h = "." THEN Normalize(Tail(parts), acc)
             ELSE IF h = ".."
             THEN Normalize(Tail(parts),
                            IF acc = <<>> THEN acc ELSE SubSeq(acc, 1, Len(acc) - 1))
             ELSE Normalize(Tail(parts), Follow(Append(acc, h)))

\* (WORKDIR / p).resolve()
Resolve(p) ==
    IF StartsWith(p, "/") THEN Normalize(SplitOn(p, "/", ""), <<>>)
    ELSE Normalize(SplitOn(p, "/", ""), WORKDIR)

PathStr(path) == IF path = <<>> THEN "/" ELSE Join("", [i \in DOMAIN path |-> "/" \o path[i]])

IsPrefix(a, b) == Len(a) <= Len(b) /\ SubSeq(b, 1, Len(a)) = a

\* the test made on the text of the two paths
IsRelativeTo_by_text(path, root) == StartsWith(PathStr(path), PathStr(root))

\* path.is_relative_to(WORKDIR)
IsRelativeTo(path, root) == IsPrefix(root, path)

\* safe_path(p): the resolved path, or the ValueError
safe_path(p) ==
    IF p.t # "str"
    THEN [raised |-> TRUE,
          msg |-> "unsupported operand type(s) for /: 'PosixPath' and '"
                  \o p.t \o "'"]
    ELSE LET path == Resolve(p.v)
         IN  IF ~IsRelativeTo(path, WORKDIR)
             THEN [raised |-> TRUE, msg |-> "Path escapes workspace: " \o p.v]
             ELSE [raised |-> FALSE, path |-> path]

IsFile(files, path) == \E f \in files : f.path = path
IsDir(files, path) ==
    \/ path = <<>>
    \/ path = WORKDIR
    \/ \E f \in files : IsPrefix(path, f.path) /\ f.path # path
TextOf(files, path) == (CHOOSE f \in files : f.path = path).text

\* the file the operating system opens for a path: its links followed
RealPath(path) == Normalize(path, <<>>)

RECURSIVE UniversalNewlines(_)
\* what text mode reads: "\r\n" and "\r" both read as "\n"
UniversalNewlines(s) ==
    IF s = "" THEN ""
    ELSE IF Head(s) = "\r"
    THEN "\n" \o UniversalNewlines(IF StartsWith(Tail(s), "\n") THEN Tail(Tail(s))
                                    ELSE Tail(s))
    ELSE Head(s) \o UniversalNewlines(Tail(s))

\* Path.read_text(): the text, or the OSError
read_text(files, path) ==
    LET real == RealPath(path)
    IN  IF IsFile(files, real)
        THEN [raised |-> FALSE, text |-> UniversalNewlines(TextOf(files, real))]
        ELSE IF IsDir(files, real)
        THEN [raised |-> TRUE,
              msg |-> "[Errno 21] Is a directory: '" \o PathStr(path) \o "'"]
        ELSE [raised |-> TRUE,
              msg |-> "[Errno 2] No such file or directory: '" \o PathStr(path) \o "'"]

\* fp.parent.mkdir(parents=True, exist_ok=True); fp.write_text(content):
\* on POSIX "\n" is written as it is, and so is "\r"
write_text(files, path, content) ==
    LET real == RealPath(path)
    IN  IF \E k \in 1..(Len(real) - 1) : IsFile(files, SubSeq(real, 1, k))
        THEN [raised |-> TRUE,
              msg |-> "[Errno 20] Not a directory: '" \o PathStr(path) \o "'",
              files |-> files]
        ELSE IF IsDir(files, real)
        THEN [raised |-> TRUE,
              msg |-> "[Errno 21] Is a directory: '" \o PathStr(path) \o "'",
              files |-> files]
        ELSE [raised |-> FALSE,
              files |-> {f \in files : f.path # real}
                        \cup {[path |-> real, text |-> content]}]

LineBreaks == {"\n", "\r", "\f"}

RECURSIVE SplitLines(_, _)
\* str.splitlines(): a line ends at "\n", "\r", "\r\n" or "\f", and there
\* is no empty last line after a final line break
SplitLines(s, cur) ==
    IF s = "" THEN IF cur = "" THEN <<>> ELSE <<cur>>
    ELSE IF Head(s) = "\r" /\ StartsWith(Tail(s), "\n")
    THEN <<cur>> \o SplitLines(Tail(Tail(s)), "")
    ELSE IF Head(s) \in LineBreaks THEN <<cur>> \o SplitLines(Tail(s), "")
    ELSE SplitLines(Tail(s), cur \o Head(s))

MaxOutput == 50000

Truncate(s, n) == IF Len(s) > n THEN SubSeq(s, 1, n) ELSE s

\* lines[:limit]
SliceTo(lines, limit) ==
    IF limit >= 0 THEN SubSeq(lines, 1, IF limit < Len(lines) THEN limit ELSE Len(lines))
    ELSE SubSeq(lines, 1, IF Len(lines) + limit > 0 THEN Len(lines) + limit ELSE 0)

\* input.get("limit") is truthy
Truthy(x) == x.t = "int" /\ x.n # 0

\* run_read(path, limit); limit is JNull when absent
run_read(files, path, limit) ==
    LET sp == safe_path(path)
    IN  IF sp.raised THEN "Error: " \o sp.msg
        ELSE LET rd == read_text(files, sp.path)
             IN  IF rd.raised THEN "Error: " \o rd.msg
                 ELSE LET lines == SplitLines(rd.text, "")
                      IN  IF Truthy(limit) /\ limit.n < Len(lines)
                          THEN Truncate(Join("\n",
                                   Append(SliceTo(lines, limit.n),
                                          "... (" \o ToString(Len(lines) - limit.n)
                                                  \o " more)")), MaxOutput)
                          ELSE Truncate(Join("\n", lines), MaxOutput)

\* run_write(path, content): the text returned and the files afterwards
run_write(files, path, content) ==
    LET sp == safe_path(path)
    IN  IF sp.raised THEN [out |-> "Error: " \o sp.msg, files |-> files]
        ELSE IF content.t # "str"
        THEN [out |-> "Error: data must be str, not " \o content.t, files |-> files]
        ELSE LET wr == write_text(files, sp.path, content.v)
             IN  IF wr.raised THEN [out |-> "Error: " \o wr.msg, files |-> files]
                 ELSE [out |-> "Wrote " \o ToString(Len(content.v)) \o " bytes to "
                               \o path.v,
                       files |-> wr.files]

\* the least i with old at position i of s, 0 when there is none
Find(s, old) ==
    LET hits == {i \in 1..(Len(s) - Len(old) + 1) :
                    SubSeq(s, i, i + Len(old) - 1) = old}
    IN  IF hits = {} THEN 0 ELSE CHOOSE i \in hits : \A j \in hits : i <= j

\* content.replace(old, new, 1), old occurring in content
ReplaceFirst(s, old, new) ==
    LET i == Find(s, old)
    IN  SubSeq(s, 1, i - 1) \o new \o SubSeq(s, i + Len(old), Len(s))

\* run_edit(path, old_text, new_text)
run_edit(files, path, old_text, new_text) ==
    LET sp == safe_path(path)
    IN  IF sp.raised THEN [out |-> "Error: " \o sp.msg, files |-> files]
        ELSE LET rd == read_text(files, sp.path)
             IN  IF rd.raised THEN [out |-> "Error: " \o rd.msg, files |-> files]
                 ELSE IF old_text.t # "str"
                 THEN [out |-> "Error: 'in <string>' requires string as left operand, not "
                               \o old_text.t,
                       files |-> files]
                 ELSE IF Find(rd.text, old_text.v) = 0
                 THEN [out |-> "Error: Text not found in " \o path.v, files |-> files]
                 ELSE IF new_text.t # "str"
                 THEN [out |-> "Error: replace() argument 2 must be str, not "
                               \o new_text.t,
                       files |-> files]
                 ELSE [out |-> "Edited " \o path.v,
                       files |-> write_text(files, sp.path,
                                    ReplaceFirst(rd.text, old_text.v, new_text.v)).files]

(***************************************************************************)
(* The shell.  What a command does is the environment's: an outcome is     *)
(* what subprocess.run did with it.                                        *)
(***************************************************************************)
Dangerous == {"rm -rf /", "sudo", "shutdown", "reboot"}

Contains(s, sub) == Find(s, sub) # 0

ShellOutcomes ==
    { [kind |-> "done", stdout |-> "hi\n", stderr |-> "", msg |-> ""],
      [kind |-> "timeout", stdout |-> "", stderr |-> "", msg |-> ""] }

\* the shell's outcomes for the direct calls of run_bash
AllShellOutcomes ==
    ShellOutcomes
    \cup { [kind |-> "done", stdout |-> "", stderr |-> " \n", msg |-> ""],
           [kind |-> "done", stdout |-> "  out\n", stderr |-> "warn \n", msg |-> ""],
           [kind |-> "error", stdout |-> "", stderr |-> "",
            msg |-> "'utf-8' codec can't decode byte 0xff in position 0: invalid start byte"],
           [kind |-> "error", stdout |-> "", stderr |-> "",
            msg |-> "[Errno 2] No such file or directory: '/work'"] }

\* run_bash handing a timeout to its handler of any other exception
run_bash_timeout_as_error(cmd, outcome) ==
    IF \E d \in Dangerous : Contains(cmd.v, d)
    THEN [raised |-> FALSE, out |-> "Error: Dangerous command blocked",
          spawned |-> FALSE]
    ELSE IF outcome.kind \in {"timeout", "error"}
    THEN [raised |-> FALSE,
          out |-> "Error: " \o (IF outcome.kind = "timeout"
                                THEN "Command '" \o cmd.v
                                     \o "' timed out after 60 seconds"
                                ELSE outcome.msg),
          spawned |-> TRUE]
    ELSE LET output == Strip(outcome.stdout \o outcome.stderr)
         IN  [raised |-> FALSE,
              out |-> IF output # "" THEN Truncate(output, MaxOutput)
                      ELSE "(no output)",
              spawned |-> TRUE]

\* run_bash(cmd), the shell doing outcome: the text returned and whether
\* subprocess.run was called, or the TypeError of the denylist test on a
\* command that is no string
run_bash(cmd, outcome) ==
    IF cmd.t # "str"
    THEN [raised |-> TRUE,
          msg |-> "argument of type '" \o cmd.t \o "' is not iterable",
          spawned |-> FALSE]
    ELSE IF \E d \in Dangerous : Contains(cmd.v, d)
    THEN [raised |-> FALSE, out |-> "Error: Dangerous command blocked",
          spawned |-> FALSE]
    ELSE IF outcome.kind = "timeout"
    THEN [raised |-> FALSE, out |-> "Error: Timeout", spawned |-> TRUE]
    ELSE IF outcome.kind = "error"
    THEN [raised |-> FALSE, out |-> "Error: " \o outcome.msg, spawned |-> TRUE]
    ELSE LET output == Strip(outcome.stdout \o outcome.stderr)
         IN  [raised |-> FALSE,
              out |-> IF output # "" THEN Truncate(output, MaxOutput)
                      ELSE "(no output)",
              spawned |-> TRUE]

\* the first agent's denylist
Dangerous_v1 == {"rm -rf /", "sudo", "shutdown", "reboot", "> /dev/"}

\* the first agent's run_bash(cmd)
run_bash_v1(cmd, outcome) ==
    IF cmd.t # "str"
    THEN [raised |-> TRUE,
          msg |-> "argument of type '" \o cmd.t \o "' is not iterable",
          spawned |-> FALSE]
    ELSE IF \E d \in Dangerous_v1 : Contains(cmd.v, d)
    THEN [raised |-> FALSE, out |-> "Error: Dangerous command blocked",
          spawned |-> FALSE]
    ELSE IF outcome.kind = "timeout"
    THEN [raised |-> FALSE, out |-> "Error: Command timed out (60s)",
          spawned |-> TRUE]
    ELSE IF outcome.kind = "error"
    THEN [raised |-> FALSE, out |-> "Error: " \o outcome.msg, spawned |-> TRUE]
    ELSE LET output == Strip(outcome.stdout \o outcome.stderr)
         IN  [raised |-> FALSE,
              out |-> IF output # "" THEN Truncate(output, MaxOutput)
                      ELSE "(no output)",
              spawned |-> TRUE]

\* run_todo(items): the text returned and the stored list afterwards
run_todo(items, stored) ==
    LET r == update(items, stored)
    IN  IF r.raised THEN [out |-> "Error: " \o r.msg, items |-> r.items]
        ELSE [out |-> r.msg, items |-> r.items]

(***************************************************************************)
(* Tool dispatch                                                           *)
(***************************************************************************)
KnownTools == {"bash", "read_file", "write_file", "edit_file", "TodoWrite"}

\* the fields execute_tool reads with input[...]
Required(name) ==
    IF name = "bash" THEN <<"command">>
    ELSE IF name = "read_file" THEN <<"path">>
    ELSE IF name = "write_file" THEN <<"path", "content">>
    ELSE IF name = "edit_file" THEN <<"path", "old_text", "new_text">>
    ELSE IF name = "TodoWrite" THEN <<"items">>
    ELSE <<>>

\* the first field input[...] does not find, in the order of evaluation
MissingField(name, input) ==
    LET req == Required(name)
        miss == {i \in DOMAIN req : req[i] \notin DOMAIN input}
    IN  IF miss = {} THEN ""
        ELSE req[CHOOSE i \in miss : \A j \in miss : i <= j]

\* input.get("limit")
GetLimit(input) == IF "limit" \in DOMAIN input THEN input["limit"] ELSE JNull

\* execute_tool raising on a name it does not know
UnknownTool_raises(name, stored, files) ==
    [raised |-> TRUE, msg |-> "Unknown tool: " \o name,
     items |-> stored, files |-> files]

\* execute_tool's last line: no branch took the name
UnknownTool(name, stored, files) ==
    [raised |-> FALSE, out |-> "Unknown tool: " \o name,
     items |-> stored, files |-> files]

\* execute_tool(name, input) on the stored list and the files, the shell
\* doing outcome: the exception it raises, or the text it returns with the
\* stored list and the files afterwards.
execute_tool(name, input, stored, files, outcome) ==
    IF MissingField(name, input) # ""
    THEN [raised |-> TRUE, msg |-> "'" \o MissingField(name, input) \o "'",
          items |-> stored, files |-> files]
    ELSE IF name = "bash"
    THEN LET r == run_bash(input["command"], outcome)
         IN  IF r.raised
             THEN [raised |-> TRUE, msg |-> r.msg, items |-> stored, files |-> files]
             ELSE [raised |-> FALSE, out |-> r.out, items |-> stored, files |-> files]
    ELSE IF name = "read_file"
    THEN [raised |-> FALSE, out |-> run_read(files, input["path"], GetLimit(input)),
          items |-> stored, files |-> files]
    ELSE IF name = "write_file"
    THEN LET r == run_write(files, input["path"], input["content"])
         IN  [raised |-> FALSE, out |-> r.out, items |-> stored, files |-> r.files]
    ELSE IF name = "edit_file"
    THEN LET r == run_edit(files, input["path"], input["old_text"], input["new_text"])
         IN  [raised |-> FALSE, out |-> r.out, items |-> stored, files |-> r.files]
    ELSE IF name = "TodoWrite"
    THEN LET r == run_todo(input["items"], stored)
         IN  [raised |-> FALSE, out |-> r.out, items |-> r.items, files |-> files]
    ELSE UnknownTool(name, stored, files)

(***************************************************************************)
(* Candidates handed to TodoManager.update                                 *)
(***************************************************************************)
MaxLen == 2

ContentVals == {JStr(" "), JStr(" a\n")}
StatusVals == {JStr("pending"), JStr("In_Progress"), JStr("completed"),
               JStr("done")}
ActiveVals == {JStr("\t"), JStr("A ")}

\* the dicts with an activeForm and any of content and status present
DictItems ==
    { JObj(f) : f \in UNION { [K -> ContentVals \cup StatusVals \cup ActiveVals]
                              : K \in { {"activeForm"} \cup X
                                        : X \in SUBSET {"content", "status"} } } }

WellTyped(item) ==
    /\ "content" \in DOMAIN item.f => item.f["content"] \in ContentVals
    /\ "status" \in DOMAIN item.f => item.f["status"] \in StatusVals
    /\ item.f["activeForm"] \in ActiveVals

Items ==
    { item \in DictItems : WellTyped(item) }
    \cup { JObj([content |-> JStr("b"), status |-> JStr("pending")]),
           JObj([content |-> JInt(5), status |-> JStr("IN_PROGRESS"),
                 activeForm |-> JNull]),
           JStr("not an object") }

\* a valid item for position i of a long list
Filler(i) ==
    JObj([content |-> JStr("t" \o ToString(i)),
          status |-> JStr(IF i % 2 = 0 THEN "completed" ELSE "pending"),
          activeForm |-> JStr("doing")])

\* a list of n items: x first, fillers after it
LongList(x, n) == JList([i \in 1..n |-> IF i = 1 THEN x ELSE Filler(i)])

\* a list of n items: two in_progress first, fillers after them
TwoActiveList(n) ==
    JList([i \in 1..n |->
              IF i <= 2
              THEN JObj([content |-> JStr("t" \o ToString(i)),
                         status |-> JStr("in_progress"),
                         activeForm |-> JStr("doing")])
              ELSE Filler(i)])

ShortLists == UNION { [1..n -> Items] : n \in 0..MaxLen }

Candidates ==
    { JList(l) : l \in ShortLists }
    \cup { LongList(x, n) : x \in Items, n \in MaxTodos..(MaxTodos + 1) }
    \cup { TwoActiveList(n) : n \in MaxTodos..(MaxTodos + 1) }
    \cup { JStr("todo"), JNull, Filler(1) }

\* Lists the manager can hold before the call: what update stores, starting
\* from the empty list, for three valid candidates.
StoredLists ==
    { update(c, <<>>).items : c \in { JList(<<>>), JList(<<Filler(1), Filler(2)>>),
                                      LongList(Filler(1), MaxTodos) } }

(***************************************************************************)
(* The session's state after construction                                  *)
(***************************************************************************)
NoResponse == [stop_reason |-> "none", content |-> <<>>]

InitFiles ==
    { [path |-> <<"work", "notes.txt">>, text |-> "ab ab\ncd\n"],
      [path |-> <<"work", "crlf.txt">>, text |-> "ab\r\nab"],
      [path |-> <<"work", "sub", "s.txt">>, text |-> "one\ftwo\nab"],
      [path |-> <<"work2", "x.txt">>, text |-> "ab"],
      [path |-> <<"etc", "hosts">>, text |-> "localhost"] }

InitLoop ==
    /\ fs = InitFiles
    /\ history = <<>>
    /\ first_message = TRUE
    /\ rounds_without_todo = 0
    /\ pc = "input"
    /\ response = NoResponse
    /\ results = <<>>
    /\ used_todo = FALSE
    /\ next_id = 1
    /\ n_calls = 0
    /\ last_error = ""
    /\ gw_log = <<>>
    /\ dispatched = <<>>
    /\ ended_by = ""

(***************************************************************************)
(* The session: main and agent_loop                                        *)
(***************************************************************************)
INITIAL_REMINDER == "<reminder>Use TodoWrite for multi-step tasks.</reminder>"
NAG_REMINDER == "<reminder>10+ turns without todo update. Please update todos.</reminder>"
NagThreshold == 10

TextBlock(text) == [type |-> "text", text |-> text]

IsUserTextTurn(turn) ==
    turn.role = "user" /\ turn.content # <<>> /\ turn.content[1].type = "text"

NumUserTurns(h) == Cardinality({i \in DOMAIN h : IsUserTextTurn(h[i])})

\* the nag sent from the threshold on
Reminders_from_threshold(first, rounds) ==
    IF first THEN <<TextBlock(INITIAL_REMINDER)>>
    ELSE IF rounds >= NagThreshold THEN <<TextBlock(NAG_REMINDER)>>
    ELSE <<>>

\* the reminder blocks main puts before the user's text
Reminders(first, rounds) ==
    IF first THEN <<TextBlock(INITIAL_REMINDER)>>
    ELSE IF rounds > NagThreshold THEN <<TextBlock(NAG_REMINDER)>>
    ELSE <<>>

\* main, from input() to the call of agent_loop
UserTurn(user_input) ==
    /\ pc = "input"
    /\ history' = Append(history,
                         [role |-> "user",
                          content |-> Reminders(first_message, rounds_without_todo)
                                      \o <<TextBlock(user_input)>>])
    /\ first_message' = FALSE
    /\ pc' = "awaiting_model"
    /\ gw_log' = <<>>
    /\ dispatched' = <<>>
    /\ UNCHANGED <<todo_items, todoVars, fs, rounds_without_todo, response,
                   results, used_todo, next_id, n_calls, last_error, ended_by>>

\* the failure of the gateway call ending the session
GatewayFail_ends_session ==
    /\ pc = "awaiting_model"
    /\ pc' = "exited"
    /\ ended_by' = "exit"
    /\ last_error' = "Error: Connection error."
    /\ gw_log' = Append(gw_log, "error")
    /\ UNCHANGED <<todo_items, todoVars, fs, history, first_message,
                   rounds_without_todo, response, results, used_todo, next_id,
                   n_calls, dispatched>>

\* client.messages.create raising: main's except clause reports it
GatewayFail ==
    /\ pc = "awaiting_model"
    /\ pc' = "input"
    /\ last_error' = "Error: Connection error."
    /\ gw_log' = Append(gw_log, "error")
    /\ UNCHANGED <<todo_items, todoVars, fs, history, first_message,
                   rounds_without_todo, response, results, used_todo, next_id,
                   n_calls, dispatched, ended_by>>

\* main at the prompt: input() raising EOFError or KeyboardInterrupt, an
\* empty line or an exit keyword; main leaves its loop and returns
ExitCauses == {"exit", "eof", "interrupt"}

\* the prompt coming back after the cause
Exit_back_to_prompt(cause) ==
    /\ pc = "input"
    /\ ended_by = ""
    /\ ended_by' = cause
    /\ UNCHANGED <<todo_items, todoVars, fs, history, first_message,
                   rounds_without_todo, pc, response, results, used_todo, next_id,
                   n_calls, last_error, gw_log, dispatched>>

Exit(cause) ==
    /\ pc = "input"
    /\ pc' = "exited"
    /\ ended_by' = cause
    /\ UNCHANGED <<todo_items, todoVars, fs, history, first_message,
                   rounds_without_todo, response, results, used_todo, next_id,
                   n_calls, last_error, gw_log, dispatched>>

\* KeyboardInterrupt raised inside agent_loop: no handler of run_bash, of
\* the other tools or of main catches it, and the process ends
InterruptTurn ==
    /\ pc \in {"awaiting_model", "executing_tools"}
    /\ pc' = "exited"
    /\ ended_by' = "interrupt"
    /\ last_error' = "KeyboardInterrupt"
    /\ response' = NoResponse
    /\ results' = <<>>
    /\ used_todo' = FALSE
    /\ UNCHANGED <<todo_items, todoVars, fs, history, first_message,
                   rounds_without_todo, next_id, n_calls, gw_log, dispatched>>

\* the blocks of content with type tool_use, in order
RECURSIVE tool_calls(_)
tool_calls(content) ==
    IF content = <<>> THEN <<>>
    ELSE IF Head(content).type = "tool_use"
         THEN <<Head(content)>> \o tool_calls(Tail(content))
         ELSE tool_calls(Tail(content))

\* agent_loop on a response whose stop_reason is not tool_use
GatewayFinal(resp) ==
    /\ pc = "awaiting_model"
    /\ resp.stop_reason # "tool_use"
    /\ history' = Append(history, [role |-> "assistant", content |-> resp.content])
    /\ pc' = "input"
    /\ gw_log' = Append(gw_log, resp.stop_reason)
    /\ UNCHANGED <<todo_items, todoVars, fs, first_message, rounds_without_todo,
                   response, results, used_todo, next_id, n_calls, last_error,
                   dispatched, ended_by>>

\* the gateway's response carrying the calls of batch, numbered from next_id
ToolUseResponse(batch, id) ==
    [stop_reason |-> "tool_use",
     content |-> <<TextBlock("working")>>
                 \o [i \in DOMAIN batch |->
                        [type |-> "tool_use", id |-> id + i - 1,
                         name |-> batch[i].name, input |-> batch[i].input]]]

\* the loop taking no tool round after its third gateway call
GatewayToolUse_capped(batch) ==
    /\ pc = "awaiting_model"
    /\ Len(gw_log) < 3
    /\ response' = ToolUseResponse(batch, next_id)
    /\ results' = <<>>
    /\ used_todo' = FALSE
    /\ pc' = "executing_tools"
    /\ next_id' = next_id + Len(batch)
    /\ n_calls' = n_calls + Len(batch)
    /\ gw_log' = Append(gw_log, "tool_use")
    /\ UNCHANGED <<todo_items, todoVars, fs, history, first_message,
                   rounds_without_todo, last_error, dispatched, ended_by>>

\* agent_loop on a response whose stop_reason is tool_use, up to the for loop
GatewayToolUse(batch) ==
    /\ pc = "awaiting_model"
    /\ response' = ToolUseResponse(batch, next_id)
    /\ results' = <<>>
    /\ used_todo' = FALSE
    /\ pc' = "executing_tools"
    /\ next_id' = next_id + Len(batch)
    /\ n_calls' = n_calls + Len(batch)
    /\ gw_log' = Append(gw_log, "tool_use")
    /\ UNCHANGED <<todo_items, todoVars, fs, history, first_message,
                   rounds_without_todo, last_error, dispatched, ended_by>>

\* the call the for loop is at, res being the results collected so far
CurrentCall(resp, res) == tool_calls(resp.content)[Len(res) + 1]

\* the counter never reset
CountRound_no_reset(used, rounds) == rounds + 1

\* rounds_without_todo after a batch
CountRound(used, rounds) == IF used THEN 0 ELSE rounds + 1

\* one turn appended per result
AppendRound_split(messages, content, res) ==
    messages \o << [role |-> "assistant", content |-> content] >>
             \o [i \in DOMAIN res |-> [role |-> "user", content |-> <<res[i]>>]]

\* the two turns agent_loop appends after a batch
AppendRound(messages, content, res) ==
    messages \o << [role |-> "assistant", content |-> content],
                   [role |-> "user", content |-> res] >>

\* One pass of agent_loop's for loop.  An exception of execute_tool leaves
\* agent_loop and is reported by main.  After the last call of the batch the
\* counter is updated and both turns are appended.
ExecTool(outcome) ==
    /\ pc = "executing_tools"
    /\ LET tc == CurrentCall(response, results)
           r == execute_tool(tc.name, tc.input, todo_items, fs, outcome)
       IN  /\ dispatched' = Append(dispatched, tc.id)
           /\ todo_items' = r.items
           /\ fs' = r.files
           /\ IF r.raised
              THEN /\ pc' = "input"
                   /\ last_error' = "Error: " \o r.msg
                   /\ response' = NoResponse
                   /\ results' = <<>>
                   /\ used_todo' = FALSE
                   /\ UNCHANGED <<history, rounds_without_todo>>
              ELSE LET res == Append(results,
                                     [type |-> "tool_result", tool_use_id |-> tc.id,
                                      content |-> r.out])
                       used == used_todo \/ tc.name = "TodoWrite"
                   IN  IF Len(res) < Len(tool_calls(response.content))
                       THEN /\ results' = res
                            /\ used_todo' = used
                            /\ UNCHANGED <<pc, response, history,
                                           rounds_without_todo, last_error>>
                       ELSE /\ rounds_without_todo' =
                                   CountRound(used, rounds_without_todo)
                            /\ history' =
                                   AppendRound(history, response.content, res)
                            /\ pc' = "awaiting_model"
                            /\ response' = NoResponse
                            /\ results' = <<>>
                            /\ used_todo' = FALSE
                            /\ UNCHANGED last_error
    /\ UNCHANGED <<todoVars, first_message, next_id, n_calls, gw_log, ended_by>>

(***************************************************************************)
(* What the gateway and the user send                                      *)
(***************************************************************************)
MaxUserTurns == 2
MaxCalls == 2

UserInputs == {"create a.txt"}

TwoInProgress ==
    JList(<<JObj([content |-> JStr("x"), status |-> JStr("in_progress"),
                  activeForm |-> JStr("X")]),
            JObj([content |-> JStr("y"), status |-> JStr("IN_PROGRESS"),
                  activeForm |-> JStr("Y")])>>)

OneInProgress ==
    JList(<<JObj([content |-> JStr(" x "), status |-> JStr("In_Progress"),
                  activeForm |-> JStr("X")]),
            JObj([content |-> JStr("y"), status |-> JStr("completed"),
                  activeForm |-> JStr("Y")])>>)

BadItem(f) == JList(<<Filler(1), JObj(f)>>)

TodoArgs ==
    { OneInProgress, TwoInProgress,
      LongList(Filler(1), MaxTodos + 1),
      BadItem([content |-> JStr("z"), status |-> JStr("done"),
               activeForm |-> JStr("Z")]),
      BadItem([content |-> JStr(" "), status |-> JStr("pending"),
               activeForm |-> JStr("Z")]),
      BadItem([content |-> JStr("z"), status |-> JStr("pending"),
               activeForm |-> JStr("\n")]) }

LoopTodoArgs == { OneInProgress, TwoInProgress }

ToolCalls ==
    { [name |-> "TodoWrite", input |-> [items |-> c]] : c \in LoopTodoArgs }
    \cup
    { [name |-> "frobnicate", input |-> [path |-> JStr("a.txt")]],
      [name |-> "bash", input |-> <<>>],
      [name |-> "bash", input |-> [command |-> JStr("echo hi")]],
      [name |-> "bash", input |-> [command |-> JInt(5)]],
      [name |-> "write_file",
       input |-> [path |-> JStr("a.txt"), content |-> JStr("hi")]],
      [name |-> "read_file", input |-> [path |-> JStr("a.txt")]] }

Batches == UNION { [1..n -> ToolCalls] : n \in 1..MaxCalls }

FinalResponses ==
    { [stop_reason |-> "end_turn", content |-> <<TextBlock("done")>>],
      [stop_reason |-> "max_tokens",
       content |-> <<TextBlock("let me"),
                     [type |-> "tool_use", id |-> 0, name |-> "bash",
                      input |-> [command |-> JStr("echo hi")]]>>] }

Init ==
    /\ InitLoop
    /\ todo_items = <<>>
    /\ t_pc = "idle"
    /\ t_arg = JNull
    /\ t_prev = <<>>
    /\ t_out = [raised |-> FALSE, msg |-> ""]

Next ==
    \/ \E u \in UserInputs : NumUserTurns(history) < MaxUserTurns /\ UserTurn(u)
    \/ GatewayFail
    \/ \E resp \in FinalResponses : GatewayFinal(resp)
    \/ \E batch \in Batches :
          n_calls + Len(batch) <= MaxCalls /\ GatewayToolUse(batch)
    \/ \E outcome \in ShellOutcomes : ExecTool(outcome)

Spec == Init /\ [][Next]_vars

(***************************************************************************)
(* SpecRounds: long outer turns of one-call batches with no task-list      *)
(* update, for the reminders                                               *)
(***************************************************************************)
MaxRounds == 12

PlainBatch == <<[name |-> "read_file", input |-> [path |-> JStr("notes.txt")]]>>

EndTurn == [stop_reason |-> "end_turn", content |-> <<TextBlock("done")>>]

TodoBatch == <<[name |-> "TodoWrite", input |-> [items |-> TwoInProgress]]>>

NextRounds ==
    \/ \E u \in UserInputs : NumUserTurns(history) < MaxUserTurns /\ UserTurn(u)
    \/ GatewayFail
    \/ GatewayFinal(EndTurn)
    \/ n_calls < MaxRounds /\ GatewayToolUse(PlainBatch)
    \/ /\ n_calls < MaxRounds
       /\ rounds_without_todo >= NagThreshold
       /\ GatewayToolUse(TodoBatch)
    \/ \E outcome \in ShellOutcomes : ExecTool(outcome)

SpecRounds == Init /\ [][NextRounds]_vars

(***************************************************************************)
(* SpecTodo: one call of TodoManager.update on a stored list               *)
(***************************************************************************)
InitTodo ==
    /\ InitLoop
    /\ todo_items \in StoredLists
    /\ t_arg \in Candidates
    /\ t_pc = "call"
    /\ t_prev = <<>>
    /\ t_out = [raised |-> FALSE, msg |-> ""]

TodoUpdate ==
    /\ t_pc = "call"
    /\ LET r == update(t_arg, todo_items)
       IN  /\ todo_items' = r.items
           /\ t_out' = [raised |-> r.raised, msg |-> r.msg]
    /\ t_prev' = todo_items
    /\ t_pc' = "returned"
    /\ UNCHANGED <<t_arg, loopVars>>

\* the caller handing update another candidate
TodoCall(c) ==
    /\ t_pc = "returned"
    /\ t_arg' = c
    /\ t_pc' = "call"
    /\ t_prev' = <<>>
    /\ t_out' = [raised |-> FALSE, msg |-> ""]
    /\ UNCHANGED <<todo_items, loopVars>>

NextTodo ==
    \/ TodoUpdate
    \/ \E c \in TodoArgs : TodoCall(c)

SpecTodo == InitTodo /\ [][NextTodo]_vars

(***************************************************************************)
(* What the specification calls a valid candidate, in its own words        *)
(***************************************************************************)
IsItemList(c) == c.t = "list" /\ \A i \in DOMAIN c.l : c.l[i].t = "obj"

HasText(item, key) == key \in DOMAIN item.f /\ Strip(PyStr(item.f[key])) # ""

NamesStatus(item) ==
    "status" \in DOMAIN item.f /\ Lower(PyStr(item.f["status"])) \in Statuses

InputStatusCount(l, status) ==
    Cardinality({i \in DOMAIN l : /\ "status" \in DOMAIN l[i].f
                                  /\ Lower(PyStr(l[i].f["status"])) = status})

ValidCandidate(c) ==
    /\ IsItemList(c)
    /\ \A i \in DOMAIN c.l :
          /\ HasText(c.l[i], "content") /\ HasText(c.l[i], "activeForm")
          /\ NamesStatus(c.l[i])
          /\ \A k \in DOMAIN c.l[i].f : c.l[i].f[k].t = "str"
    /\ Len(c.l) <= MaxTodos
    /\ InputStatusCount(c.l, "in_progress") <= 1

CountText(l) ==
    "(" \o ToString(InputStatusCount(l, "completed")) \o "/" \o ToString(Len(l))
        \o " completed)"

\* C1: a call of update that fails validation leaves the stored list as it
\* was before the call.
C1_RejectedLeavesStored ==
    (t_pc = "returned" /\ t_out.raised) => todo_items = t_prev

\* a call rejected by the in_progress rule, after every item was validated,
\* on a stored list that is not empty
C1_Witness ==
    /\ t_pc = "returned"
    /\ t_out.raised
    /\ t_out.msg = "Only one task can be in_progress"
    /\ t_prev # <<>>
    /\ todo_items = t_prev

\* C3 as written: a valid candidate is stored exactly as given and the render
\* ends with the completed/total count.
C3_Original ==
    (t_pc = "returned" /\ ValidCandidate(t_arg)) =>
        /\ ~t_out.raised
        /\ todo_items = [i \in DOMAIN t_arg.l |->
                            [content |-> PyStr(t_arg.l[i].f["content"]),
                             status |-> PyStr(t_arg.l[i].f["status"]),
                             activeForm |-> PyStr(t_arg.l[i].f["activeForm"])]]
        /\ EndsWith(t_out.msg, CountText(t_arg.l))

\* C3, amended: a valid candidate is accepted; the stored list is the input in
\* the same order with content and activeForm trimmed and status lower-cased;
\* the render of a non-empty list ends with the completed/total count of the
\* input and the render of the empty list is the text "No todos.".
C3_ValidAccepted ==
    (t_pc = "returned" /\ ValidCandidate(t_arg)) =>
        /\ ~t_out.raised
        /\ todo_items = [i \in DOMAIN t_arg.l |->
                            [content |-> Strip(PyStr(t_arg.l[i].f["content"])),
                             status |-> Lower(PyStr(t_arg.l[i].f["status"])),
                             activeForm |-> Strip(PyStr(t_arg.l[i].f["activeForm"]))]]
        /\ IF t_arg.l = <<>>
           THEN t_out.msg = "No todos."
           ELSE EndsWith(t_out.msg, "\n" \o CountText(t_arg.l))

\* a valid list of 20 items, some completed, accepted over another list
C3_Witness ==
    /\ t_pc = "returned"
    /\ ValidCandidate(t_arg)
    /\ Len(t_arg.l) = MaxTodos
    /\ InputStatusCount(t_arg.l, "completed") > 0
    /\ InputStatusCount(t_arg.l, "in_progress") = 1
    /\ todo_items # t_prev
    /\ ~t_out.raised

\* what C4 lists as a violation of a validation rule
ViolatesRule(c) ==
    \/ ~IsItemList(c)
    \/ /\ IsItemList(c)
       /\ \/ \E i \in DOMAIN c.l :
                \/ ~HasText(c.l[i], "content")
                \/ ~HasText(c.l[i], "activeForm")
                \/ ~NamesStatus(c.l[i])
          \/ Len(c.l) > MaxTodos
          \/ InputStatusCount(c.l, "in_progress") > 1

\* C4: update fails on every candidate that violates a validation rule, an
\* item with no status field included.
C4_ViolationRejected ==
    (t_pc = "returned" /\ ViolatesRule(t_arg)) => t_out.raised

\* C2: the stored list never has more than 20 items or more than one item
\* in_progress, and every stored item has one of the three statuses and a
\* content and an activeForm that are trimmed and not empty.
C2_StoredListValid ==
    /\ Len(todo_items) <= MaxTodos
    /\ Count(todo_items, "in_progress") <= 1
    /\ \A i \in DOMAIN todo_items :
          /\ todo_items[i].status \in Statuses
          /\ todo_items[i].content # ""
          /\ Strip(todo_items[i].content) = todo_items[i].content
          /\ todo_items[i].activeForm # ""
          /\ Strip(todo_items[i].activeForm) = todo_items[i].activeForm

\* a list of 21 items rejected by a second call, a list of 20 being stored
C2_Witness ==
    /\ t_pc = "returned"
    /\ t_arg = LongList(Filler(1), MaxTodos + 1)
    /\ t_out.raised
    /\ Len(todo_items) = MaxTodos

(***************************************************************************)
(* The conversation, read back from history                                *)
(***************************************************************************)
IsResultTurn(turn) ==
    turn.role = "user" /\ turn.content # <<>>
    /\ turn.content[1].type = "tool_result"

\* the assistant turns of history that were followed by their results
Rounds(h) ==
    {i \in 1..(Len(h) - 1) : h[i].role = "assistant" /\ IsResultTurn(h[i + 1])}

HasTodoCall(turn) ==
    \E j \in DOMAIN turn.content :
        turn.content[j].type = "tool_use" /\ turn.content[j].name = "TodoWrite"

\* the rounds of history since the last one with a task-list update call
RoundsSinceTodo(h) ==
    Cardinality({i \in Rounds(h) :
                    \A j \in Rounds(h) : HasTodoCall(h[j]) => j < i})

LastUserTurn(h) ==
    CHOOSE i \in DOMAIN h :
        IsUserTextTurn(h[i]) /\ \A j \in DOMAIN h : IsUserTextTurn(h[j]) => j <= i

LastOf(seq) == seq[Len(seq)]

\* C5: dispatch never raises to the agent loop: an outer turn ends only on
\* a final response or a gateway failure, never out of a tool round.
C5_DispatchNeverRaises ==
    (pc = "input" /\ gw_log # <<>>) => LastOf(gw_log) # "tool_use"

\* the text recorded for the call that was just dispatched
LastRecorded(res, h, at) ==
    IF at = "executing_tools" THEN LastOf(res).content
    ELSE LastOf(LastOf(h).content).content

\* C6: dispatching a call whose name is no known tool records the text
\* "Unknown tool: <name>", keeps the loop running and changes neither the
\* stored task list nor the files.
C6_UnknownTool ==
    [][ (pc = "executing_tools"
         /\ CurrentCall(response, results).name \notin KnownTools)
        => /\ pc' \in {"executing_tools", "awaiting_model"}
           /\ todo_items' = todo_items
           /\ fs' = fs
           /\ LastRecorded(results', history', pc')
                = "Unknown tool: " \o CurrentCall(response, results).name ]_vars

\* an unknown tool's result in the conversation, after a call that wrote a file
C6_Witness ==
    /\ pc = "awaiting_model"
    /\ fs # InitFiles
    /\ \E i \in Rounds(history) :
          /\ Len(history[i + 1].content) = 2
          /\ history[i + 1].content[2].content = "Unknown tool: frobnicate"

\* a read_file result is the text the last write_file before it in the same
\* batch wrote to the same path
ReadsSeeWrites(calls, res) ==
    \A k, j \in DOMAIN calls :
        ( /\ k < j
          /\ calls[k].name = "write_file" /\ calls[j].name = "read_file"
          /\ StartsWith(res[k].content, "Wrote ")
          /\ calls[k].input["path"] = calls[j].input["path"]
          /\ "limit" \notin DOMAIN calls[j].input
          /\ \A m \in (k + 1)..(j - 1) :
                calls[m].name \notin {"write_file", "edit_file", "bash"} )
        => res[j].content
             = Join("\n", SplitLines(PyStr(calls[k].input["content"]), ""))

\* the number of calls in the rounds of h after turn u
CallsAfter(h, u) ==
    LET idx == {i \in Rounds(h) : i > u}
        total[S \in SUBSET idx] ==
            IF S = {} THEN 0
            ELSE LET i == CHOOSE x \in S : TRUE
                 IN  Len(tool_calls(h[i].content)) + total[S \ {i}]
    IN  total[idx]

\* the bundled results of every round in history: one per tool-call block,
\* in the order of the blocks, each with the id of its call, a read seeing
\* the write before it
BundlesMatch(h) ==
    \A i \in Rounds(h) :
        LET calls == tool_calls(h[i].content)
            res == h[i + 1].content
        IN  /\ Len(res) = Len(calls)
            /\ \A j \in DOMAIN res :
                  res[j].type = "tool_result" /\ res[j].tool_use_id = calls[j].id
            /\ ReadsSeeWrites(calls, res)

\* the calls dispatched in this outer turn went in the order of emission
InEmissionOrder ==
    /\ \A j \in 1..(Len(dispatched) - 1) : dispatched[j + 1] = dispatched[j] + 1
    /\ pc = "executing_tools" =>
          LET calls == tool_calls(response.content)
          IN  /\ Len(results) < Len(calls)
              /\ \A j \in DOMAIN results : results[j].tool_use_id = calls[j].id

\* the tool-call responses of this outer turn
ToolRounds(log) == Cardinality({i \in DOMAIN log : log[i] = "tool_use"})

\* C7: in every tool round the calls of the batch are dispatched one at a
\* time in the order of emission, a later call seeing what an earlier one
\* did, and the results are bundled, one per tool-call block, in the same
\* order, each with the id of its call.
C7_EveryRoundBundled ==
    /\ BundlesMatch(history)
    /\ InEmissionOrder
    /\ (pc = "input" /\ gw_log # <<>>) =>
          /\ Cardinality({i \in Rounds(history) : i > LastUserTurn(history)})
               = ToolRounds(gw_log)
          /\ Len(dispatched) = CallsAfter(history, LastUserTurn(history))

\* C8: an outer turn of k tool-call responses and a final one adds 2k+1
\* turns after the user turn: per round the assistant turn and one turn with
\* all its results, appended when the round is over, then the final
\* assistant turn; the loop is then done and nothing was dispatched for the
\* final response.
C8_TurnShape ==
    /\ (gw_log # <<>> /\ LastOf(gw_log) \notin {"tool_use", "error"}) =>
          LET k == Len(gw_log) - 1
              u == LastUserTurn(history)
          IN  /\ pc = "input"
              /\ Len(history) = u + 2 * k + 1
              /\ \A r \in 1..k :
                    /\ gw_log[r] = "tool_use"
                    /\ history[u + 2 * r - 1].role = "assistant"
                    /\ IsResultTurn(history[u + 2 * r])
                    /\ Len(history[u + 2 * r].content)
                         = Len(tool_calls(history[u + 2 * r - 1].content))
              /\ history[u + 2 * k + 1].role = "assistant"
              /\ Len(dispatched) = CallsAfter(history, u)
    /\ pc = "executing_tools" =>
          Len(history) = LastUserTurn(history) + 2 * (Len(gw_log) - 1)

\* user, assistant tool call, tool result, final assistant
C8_Witness ==
    /\ pc = "input"
    /\ gw_log = <<"tool_use", "end_turn">>
    /\ Len(history) = 4
    /\ IsUserTextTurn(history[1])
    /\ tool_calls(history[2].content)[1].name = "write_file"
    /\ history[3].content[1].content = "Wrote 2 bytes to a.txt"
    /\ history[4].role = "assistant"
    /\ [path |-> <<"work", "a.txt">>, text |-> "hi"] \in fs

ReminderTexts(turn) ==
    {turn.content[i].text : i \in 1..(Len(turn.content) - 1)}

\* C9: the first user turn carries the instructional reminder and not the
\* nag; a later user turn carries the nag exactly when the counter exceeds
\* 10 as it is sent, and nothing else before the user's text; after 11 rounds
\* without a task-list update it carries the nag and after 10 it does not.
C9_ReminderSelection ==
    [][ (pc = "input" /\ pc' = "awaiting_model") =>
        LET turn == LastOf(history')
        IN  /\ IsUserTextTurn(turn)
            /\ IF NumUserTurns(history) = 0
               THEN ReminderTexts(turn) = {INITIAL_REMINDER}
               ELSE /\ ReminderTexts(turn) =
                          IF rounds_without_todo > 10 THEN {NAG_REMINDER} ELSE {}
                    /\ RoundsSinceTodo(history) = 11
                          => NAG_REMINDER \in ReminderTexts(turn)
                    /\ RoundsSinceTodo(history) = 10
                          => NAG_REMINDER \notin ReminderTexts(turn) ]_vars

\* a user turn with the nag, sent after 11 rounds
C9_Witness ==
    /\ pc = "awaiting_model"
    /\ IsUserTextTurn(LastOf(history))
    /\ ReminderTexts(LastOf(history)) = {NAG_REMINDER}
    /\ RoundsSinceTodo(history) = 11
    /\ rounds_without_todo = 11

\* C10: the counter is the number of batches completed since the last one
\* that had a task-list update call, over all outer turns; final responses,
\* user turns and gateway failures do not change it.
C10_CounterIsRoundsSinceTodo == rounds_without_todo = RoundsSinceTodo(history)

\* a batch without an update counted in a second outer turn, after a batch
\* with an update in the first
C10_Witness ==
    /\ NumUserTurns(history) = 2
    /\ rounds_without_todo = 1
    /\ \E i \in Rounds(history) : HasTodoCall(history[i])
    /\ \E i \in DOMAIN gw_log : gw_log[i] = "tool_use"
    /\ pc = "input"

(***************************************************************************)
(* SpecFs: calls of read_file, write_file and edit_file, one after         *)
(* another, on the files                                                   *)
(***************************************************************************)
MaxFsCalls == 3

FsPaths ==
    { "notes.txt", "crlf.txt", "a/b/../c.txt", "../outside.txt", "/etc/hosts",
      "/work/notes.txt", "out/hosts", "in/s.txt", "../work2/x.txt", ".." }

Limits == { JInt(0), JInt(1), JInt(2), JInt(3), JInt(0 - 1) }

ReadCalls ==
    { [name |-> "read_file", input |-> [path |-> JStr(p)]] : p \in FsPaths }
    \cup { [name |-> "read_file", input |-> [path |-> JStr(p), limit |-> l]]
           : p \in {"notes.txt", "crlf.txt", "in/s.txt"}, l \in Limits }

WriteCalls ==
    { [name |-> "write_file", input |-> [path |-> JStr(p), content |-> JStr(c)]]
      : p \in FsPaths, c \in {"hi", "ab\r\nab ab"} }

EditCalls ==
    { [name |-> "edit_file",
       input |-> [path |-> JStr(p), old_text |-> JStr(e[1]), new_text |-> JStr(e[2])]]
      : p \in FsPaths, e \in { <<"ab", "x">>, <<"zz", "x">>, <<"", "x">> } }

FsCalls == ReadCalls \cup WriteCalls \cup EditCalls

\* the calls that follow the first one
FsLaterCalls ==
    { [name |-> "write_file",
       input |-> [path |-> JStr("a/b/../c.txt"), content |-> JStr("ab\r\nab ab")]],
      [name |-> "write_file",
       input |-> [path |-> JStr("out/hosts"), content |-> JStr("hi")]],
      [name |-> "edit_file",
       input |-> [path |-> JStr("a/c.txt"), old_text |-> JStr("ab"),
                  new_text |-> JStr("x")]],
      [name |-> "edit_file",
       input |-> [path |-> JStr("../work2/x.txt"), old_text |-> JStr("ab"),
                  new_text |-> JStr("x")]],
      [name |-> "read_file", input |-> [path |-> JStr("a/c.txt"), limit |-> JInt(1)]],
      [name |-> "read_file", input |-> [path |-> JStr("/etc/hosts")]] }

InitFs ==
    /\ InitLoop
    /\ todo_items = <<>>
    /\ t_arg \in FsCalls
    /\ t_pc = "call"
    /\ t_prev = InitFiles
    /\ t_out = [raised |-> FALSE, out |-> ""]

\* execute_tool(name, input) for the call handed over
FsRun ==
    /\ t_pc = "call"
    /\ LET r == execute_tool(t_arg.name, t_arg.input, todo_items, fs,
                             CHOOSE o \in ShellOutcomes : TRUE)
       IN  /\ fs' = r.files
           /\ t_out' = [raised |-> r.raised, out |-> IF r.raised THEN r.msg ELSE r.out]
    /\ t_prev' = fs
    /\ t_pc' = "returned"
    /\ n_calls' = n_calls + 1
    /\ UNCHANGED <<todo_items, t_arg, history, first_message, rounds_without_todo,
                   pc, response, results, used_todo, next_id, last_error, gw_log,
                   dispatched, ended_by>>

\* the caller handing over the next call
FsCall(c) ==
    /\ t_pc = "returned"
    /\ n_calls < MaxFsCalls
    /\ t_arg' = c
    /\ t_pc' = "call"
    /\ UNCHANGED <<todo_items, t_prev, t_out, loopVars>>

NextFs ==
    \/ FsRun
    \/ \E c \in FsLaterCalls : FsCall(c)

SpecFs == InitFs /\ [][NextFs]_vars

\* the path, as text, is the workspace root or below it
Under(path) == PathStr(path) = "/work" \/ StartsWith(PathStr(path), "/work/")

\* the files that are not in the workspace
Outside(files) == {f \in files : ~Under(f.path)}

\* the call that has returned names a path that leaves the workspace
Escaping == t_pc = "returned" /\ ~Under(Resolve(t_arg.input["path"].v))

\* C11: a path given to safe_path is refused as leaving the workspace or
\* resolves to the workspace root or to a place below it; whatever read_file,
\* write_file and edit_file calls have run, the files outside the workspace
\* are the ones there were at the start, with their text; a call whose path
\* leaves the workspace returns the path-escape error and leaves every file
\* as it was; "../outside.txt" is refused and "a/b/../c.txt" resolves to
\* a/c.txt in the workspace.
C11_PathContainment ==
    /\ \A p \in FsPaths :
          LET sp == safe_path(JStr(p))
          IN  IF sp.raised THEN sp.msg = "Path escapes workspace: " \o p
              ELSE Under(sp.path) /\ Under(RealPath(sp.path))
    /\ Outside(fs) = Outside(InitFiles)
    /\ Escaping =>
          /\ fs = t_prev
          /\ t_out = [raised |-> FALSE,
                      out |-> "Error: Path escapes workspace: "
                              \o t_arg.input["path"].v]
    /\ safe_path(JStr("../outside.txt")).raised
    /\ safe_path(JStr("a/b/../c.txt")) =
          [raised |-> FALSE, path |-> <<"work", "a", "c.txt">>]

\* a write through a link that leads out of the workspace was refused
\* after a write inside the workspace had created a file
C11_Witness ==
    /\ Escaping
    /\ t_arg.name = "write_file"
    /\ t_arg.input["path"].v = "out/hosts"
    /\ IsFile(fs, <<"work", "a", "c.txt">>)

\* the call that has returned is a call of the tool on a file of the
\* workspace that was there when it was made
ReturnedOnFile(name) ==
    /\ t_pc = "returned"
    /\ t_arg.name = name
    /\ Under(Resolve(t_arg.input["path"].v))
    /\ IsFile(t_prev, Resolve(t_arg.input["path"].v))

\* C12: edit_file replaces the leftmost occurrence of old_text in the file
\* by new_text and leaves every other character of the file, and every
\* other file, as it was; when old_text does not occur in the file it
\* returns the not-found error and no file changes.
C12_EditFirstOccurrence ==
    ReturnedOnFile("edit_file") =>
        LET path == Resolve(t_arg.input["path"].v)
            old == t_arg.input["old_text"].v
            new == t_arg.input["new_text"].v
            before == TextOf(t_prev, path)
            i == Find(before, old)
        IN  IF i = 0
            THEN /\ t_out.out = "Error: Text not found in " \o t_arg.input["path"].v
                 /\ fs = t_prev
            ELSE /\ t_out.out = "Edited " \o t_arg.input["path"].v
                 /\ fs = {f \in t_prev : f.path # path}
                         \cup {[path |-> path,
                                text |-> SubSeq(before, 1, i - 1) \o new
                                         \o SubSeq(before, i + Len(old), Len(before))]}

\* the first n of the lines
FirstLines(lines, n) == SubSeq(lines, 1, IF n > 0 THEN n ELSE 0)

\* C13: read_file with an integer limit smaller than the number of lines of
\* the file returns the first limit lines followed by one marker line that
\* states how many lines were left out, the number of lines less limit;
\* with no limit, or one that is not smaller, it returns all the lines and
\* no marker.
C13_ReadLimit ==
    ReturnedOnFile("read_file") =>
        LET path == Resolve(t_arg.input["path"].v)
            lines == SplitLines(read_text(t_prev, path).text, "")
            limit == GetLimit(t_arg.input)
        IN  IF limit.t = "int" /\ limit.n < Len(lines)
            THEN t_out.out =
                    Join("\n", Append(FirstLines(lines, limit.n),
                                      "... (" \o ToString(Len(lines) - limit.n)
                                              \o " more)"))
            ELSE t_out.out = Join("\n", lines)

(***************************************************************************)
(* SpecShell: calls of run_bash, of either agent, on a command             *)
(***************************************************************************)
Commands ==
    { "echo hi", "sleep 120", "sudo ls", "echo sudoku", "rm -rf /",
      "rm -rf /tmp/x", "shutdown now", "reboot", "echo x > /dev/sda",
      "cat notes.txt > /dev/null", "ls >/dev/sda", "SUDO ls" }

Versions == {"v1", "v2"}

ShellCalls == { [version |-> v, cmd |-> JStr(c)] : v \in Versions, c \in Commands }

InitShell ==
    /\ InitLoop
    /\ todo_items = <<>>
    /\ t_arg \in ShellCalls
    /\ t_pc = "call"
    /\ t_prev = <<>>
    /\ t_out = [raised |-> FALSE, out |-> "", spawned |-> FALSE]

\* run_bash(cmd) of the agent named, the shell doing outcome
ShellRun(outcome) ==
    /\ t_pc = "call"
    /\ LET r == IF t_arg.version = "v1" THEN run_bash_v1(t_arg.cmd, outcome)
                ELSE run_bash(t_arg.cmd, outcome)
       IN  t_out' = [raised |-> r.raised, out |-> IF r.raised THEN r.msg ELSE r.out,
                     spawned |-> r.spawned]
    /\ t_prev' = outcome
    /\ t_pc' = "returned"
    /\ UNCHANGED <<todo_items, t_arg, loopVars>>

\* the caller handing over the next command
ShellCall(c) ==
    /\ t_pc = "returned"
    /\ t_arg' = c
    /\ t_pc' = "call"
    /\ t_prev' = <<>>
    /\ t_out' = [raised |-> FALSE, out |-> "", spawned |-> FALSE]
    /\ UNCHANGED <<todo_items, loopVars>>

NextShell ==
    \/ \E outcome \in AllShellOutcomes : ShellRun(outcome)
    \/ \E c \in ShellCalls : ShellCall(c)

SpecShell == InitShell /\ [][NextShell]_vars

\* the substrings of the four classes: recursive root deletion, privilege
\* escalation, shutdown and reboot, redirection to a raw device
Denylisted == {"rm -rf /", "sudo", "shutdown", "reboot", "> /dev/"}

BlockedText == "Error: Dangerous command blocked"

\* C14: in either agent, run_bash on a command that contains a denylisted
\* substring of any of the four classes returns the blocked text and calls
\* no subprocess; on a command that contains none it runs the command.
C14_DenylistBlocks ==
    t_pc = "returned" =>
        IF \E d \in Denylisted : Contains(t_arg.cmd.v, d)
        THEN t_out.out = BlockedText /\ ~t_out.spawned
        ELSE t_out.spawned

\* what the second agent's run_bash returns for the command when the shell
\* fails in another way than by running out of time
GenericErrors(cmd) ==
    { run_bash(cmd, o).out : o \in {x \in AllShellOutcomes : x.kind = "error"} }

\* C15: run_bash on a command string always returns a text and raises
\* nothing; a command that runs out of time returns the timeout text, which
\* is neither the text of any other failure of the execution nor the blocked
\* text; a command that finishes returns its standard output followed by its
\* standard error, trimmed, or the no-output text when that is empty.
C15_ShellAlwaysReturns ==
    (t_pc = "returned" /\ t_arg.version = "v2") =>
        /\ ~t_out.raised
        /\ (t_out.spawned /\ t_prev.kind = "timeout") =>
              /\ t_out.out = "Error: Timeout"
              /\ t_out.out \notin GenericErrors(t_arg.cmd)
              /\ t_out.out # BlockedText
        /\ (t_out.spawned /\ t_prev.kind = "error") =>
              /\ t_out.out = "Error: " \o t_prev.msg
              /\ t_out.out # BlockedText
        /\ (t_out.spawned /\ t_prev.kind = "done") =>
              t_out.out = IF Strip(t_prev.stdout \o t_prev.stderr) = ""
                          THEN "(no output)"
                          ELSE Strip(t_prev.stdout \o t_prev.stderr)

\* a command that was run ran out of time
C15_Witness ==
    /\ t_pc = "returned"
    /\ t_arg = [version |-> "v2", cmd |-> JStr("sleep 120")]
    /\ t_prev.kind = "timeout"
    /\ t_out = [raised |-> FALSE, out |-> "Error: Timeout", spawned |-> TRUE]

(***************************************************************************)
(* SpecPayload: outer turns whose calls carry, or produce, long texts      *)
(***************************************************************************)
RECURSIVE Repeat(_, _)
\* s * n
Repeat(s, n) ==
    IF n = 0 THEN ""
    ELSE IF n % 2 = 1 THEN s \o Repeat(s, n - 1)
    ELSE LET half == Repeat(s, n \div 2) IN half \o half

LongText == Repeat("x", MaxOutput + 1)

LongTodo ==
    [name |-> "TodoWrite",
     input |-> [items |-> JList(<<JObj([content |-> JStr(LongText),
                                        status |-> JStr("pending"),
                                        activeForm |-> JStr("Doing")])>>)]]

PayloadCalls ==
    { LongTodo,
      [name |-> "bash", input |-> [command |-> JStr("cat big.log")]],
      [name |-> "write_file",
       input |-> [path |-> JStr("a.txt"), content |-> JStr(LongText)]],
      [name |-> "edit_file",
       input |-> [path |-> JStr("notes.txt"), old_text |-> JStr(LongText),
                  new_text |-> JStr("")]],
      [name |-> LongText, input |-> [path |-> JStr("a.txt")]] }

PayloadBatches == UNION { [1..n -> PayloadCalls] : n \in 1..2 }

LongOutcomes ==
    { [kind |-> "done", stdout |-> LongText \o "\n", stderr |-> "", msg |-> ""],
      [kind |-> "timeout", stdout |-> "", stderr |-> "", msg |-> ""] }

NextPayload ==
    \/ \E u \in UserInputs : NumUserTurns(history) < MaxUserTurns /\ UserTurn(u)
    \/ GatewayFinal(EndTurn)
    \/ \E batch \in PayloadBatches :
          n_calls + Len(batch) <= 2 /\ GatewayToolUse(batch)
    \/ \E outcome \in LongOutcomes : ExecTool(outcome)

SpecPayload == Init /\ [][NextPayload]_vars

\* the tool results of the conversation
ToolResults(h) ==
    UNION { {h[i].content[j] : j \in DOMAIN h[i].content}
            : i \in {k \in DOMAIN h : IsResultTurn(h[k])} }

\* C16: every tool result in the conversation, whichever tool it comes
\* from, has a text of at most 50,000 characters.
C16_ResultsCapped ==
    \A res \in ToolResults(history) : Len(res.content) <= MaxOutput

(***************************************************************************)
(* SpecSession: the session with its ends: the prompt left by an exit      *)
(* keyword, end of input or an interrupt, and an interrupt during a turn   *)
(***************************************************************************)
SessionBatches ==
    { <<[name |-> "TodoWrite", input |-> [items |-> OneInProgress]]>>,
      <<[name |-> "bash", input |-> [command |-> JStr("echo hi")]]>>,
      <<[name |-> "write_file",
         input |-> [path |-> JStr("a.txt"), content |-> JStr("hi")]],
        [name |-> "bash", input |-> [command |-> JStr("sleep 120")]]>> }

NextSession ==
    \/ \E u \in UserInputs : NumUserTurns(history) < MaxUserTurns /\ UserTurn(u)
    \/ \E cause \in ExitCauses : Exit(cause)
    \/ InterruptTurn
    \/ GatewayFail
    \/ GatewayFinal(EndTurn)
    \/ \E batch \in SessionBatches :
          n_calls + Len(batch) <= MaxCalls /\ GatewayToolUse(batch)
    \/ \E outcome \in ShellOutcomes : ExecTool(outcome)

SpecSession == Init /\ [][NextSession]_vars

\* the step is a gateway call of agent_loop failing
GatewayFailed == gw_log' = Append(gw_log, "error")

\* C17: a failure of the gateway call, in whatever round, ends the outer
\* turn and nothing else: the session is back at its prompt, where the next
\* user utterance is accepted, and the conversation, the stored task list
\* and the round counter are what they were before the failure.
C17_GatewayFailureEndsTurnOnly ==
    /\ [][GatewayFailed =>
             /\ pc' = "input"
             /\ ended_by' = ""
             /\ history' = history
             /\ todo_items' = todo_items
             /\ rounds_without_todo' = rounds_without_todo]_vars
    /\ [](pc = "input" => \A u \in UserInputs : ENABLED UserTurn(u))

\* the gateway failed in the second round of an outer turn whose first
\* round had stored a task list
C17_Witness ==
    /\ pc = "input"
    /\ gw_log = <<"tool_use", "error">>
    /\ todo_items # <<>>
    /\ Len(history) = 3

\* C18 as stated: after an interrupt, at the prompt or during an outer
\* turn, the session is still running.
C18_InterruptKeepsSession == ended_by = "interrupt" => pc # "exited"

\* C18, amended: an interrupt at the prompt makes main leave its loop and an
\* interrupt during an outer turn ends the process; either way the session
\* is over and takes no further step, the interrupt changes neither the
\* conversation nor the stored task list, the counter or the files, and the
\* calls of the interrupted round leave no result in the conversation.
C18_InterruptEndsSession ==
    /\ [](ended_by = "interrupt" => pc = "exited")
    /\ [][pc # "exited"]_vars
    /\ [][(ended_by = "" /\ ended_by' = "interrupt") =>
             /\ history' = history
             /\ todo_items' = todo_items
             /\ rounds_without_todo' = rounds_without_todo
             /\ fs' = fs
             /\ results' = <<>>]_vars

\* the interrupt came in the middle of a batch, the first call dispatched
\* and the shell command not yet
C18_Witness ==
    /\ ended_by = "interrupt"
    /\ last_error = "KeyboardInterrupt"
    /\ Len(dispatched) = 1
    /\ IsFile(fs, <<"work", "a.txt">>)

(***************************************************************************)
(* SpecLive: outer turns in which every gateway call and every dispatch    *)
(* returns.  A gateway call that has been made is answered and a tool call *)
(* that has been dispatched returns: both steps are weakly fair.           *)
(***************************************************************************)
ShellBatch == <<[name |-> "bash", input |-> [command |-> JStr("sudo ls")]]>>

PairBatch ==
    <<[name |-> "frobnicate", input |-> [path |-> JStr("a.txt")]],
      [name |-> "TodoWrite", input |-> [items |-> JList(<<>>)]]>>

GatewayResponds ==
    \/ GatewayFinal(EndTurn)
    \/ n_calls < MaxRounds /\ GatewayToolUse(ShellBatch)
    \/ n_calls = 0 /\ GatewayToolUse(PairBatch)

DispatchReturns == \E outcome \in ShellOutcomes : ExecTool(outcome)

NextLive ==
    \/ \E u \in UserInputs : NumUserTurns(history) < MaxUserTurns /\ UserTurn(u)
    \/ GatewayResponds
    \/ DispatchReturns

SpecLive ==
    /\ Init
    /\ [][NextLive]_vars
    /\ WF_vars(GatewayResponds)
    /\ WF_vars(DispatchReturns)

\* every answer of the gateway in this outer turn asked for tools
OnlyToolUse(log) == \A i \in DOMAIN log : log[i] = "tool_use"

\* C19: every response that asks for tools takes the loop from awaiting the
\* model to executing tools, and from there, every dispatch returning, back
\* to awaiting the model; however many rounds there have been, the loop
\* takes one more; the loop is done in the step in which the gateway
\* returns a response that asks for no tools, and in no other step; while
\* every response asks for tools the loop is not done.
C19_LoopProgress ==
    /\ [][(pc = "awaiting_model" /\ gw_log' = Append(gw_log, "tool_use"))
             => pc' = "executing_tools"]_vars
    /\ [][pc = "executing_tools"
             => pc' \in {"executing_tools", "awaiting_model"}]_vars
    /\ (pc = "executing_tools") ~> (pc = "awaiting_model")
    /\ [](pc = "awaiting_model" => ENABLED GatewayToolUse(ShellBatch))
    /\ [][(pc # "input" /\ pc' = "input")
             <=> (pc = "awaiting_model" /\ Len(gw_log') = Len(gw_log) + 1
                  /\ LastOf(gw_log') # "tool_use")]_vars
    /\ []((gw_log # <<>> /\ OnlyToolUse(gw_log)) => pc # "input")

\* the loop is awaiting the model after as many tool rounds as the gateway
\* of the model asks for
C19_Witness ==
    /\ pc = "awaiting_model"
    /\ Len(gw_log) = MaxRounds
    /\ OnlyToolUse(gw_log)

(***************************************************************************)
(* The order in which update reports violations                            *)
(***************************************************************************)
\* the rule, 1 to 4, that the text of a rejection names
RuleOf(msg) ==
    IF msg = "Items must be a list" \/ EndsWith(msg, " must be an object") THEN 1
    ELSE IF \/ EndsWith(msg, ": content required")
            \/ Contains(msg, ": invalid status '")
            \/ EndsWith(msg, ": activeForm required") THEN 2
    ELSE IF msg = "Max 20 todos allowed" THEN 3
    ELSE IF msg = "Only one task can be in_progress" THEN 4
    ELSE 0

\* the item has an empty content or activeForm, or a status that is none of
\* the three; an item with no status counts as pending
FailsFields(item) ==
    \/ ~HasText(item, "content")
    \/ ItemStatus(item) \notin Statuses
    \/ ~HasText(item, "activeForm")

\* the rules the candidate violates, the candidate taken as a whole
Violated(c) ==
    (IF IsItemList(c) THEN {} ELSE {1})
    \cup (IF c.t = "list" /\ \E k \in DOMAIN c.l :
                                c.l[k].t = "obj" /\ FailsFields(c.l[k])
          THEN {2} ELSE {})
    \cup (IF c.t = "list" /\ Len(c.l) > MaxTodos THEN {3} ELSE {})
    \cup (IF c.t = "list"
             /\ Cardinality({k \in DOMAIN c.l :
                                /\ c.l[k].t = "obj"
                                /\ ItemStatus(c.l[k]) = "in_progress"}) > 1
          THEN {4} ELSE {})

Least(S) == CHOOSE n \in S : \A m \in S : n <= m

\* C20 as stated: a rejection names the lowest-numbered rule that the
\* candidate, taken as a whole, violates.
C20_LowestRuleReported ==
    (t_pc = "returned" /\ t_out.raised) =>
        /\ Violated(t_arg) # {}
        /\ RuleOf(t_out.msg) = Least(Violated(t_arg))

\* the positions of the items that are no dict or fail a field
BadItems(c) ==
    {k \in DOMAIN c.l : c.l[k].t # "obj" \/ FailsFields(c.l[k])}

\* C20, amended: a candidate that is no list is rejected as such; otherwise
\* a rejection names the first item, in list order, that is not structured
\* (rule 1) or has an empty field or a bad status (rule 2), whichever of the
\* two that item violates, rule 1 before rule 2; with no such item it names
\* the length violation, and the in_progress violation only when the length
\* is within the bound.
C20_FirstItemReported ==
    (t_pc = "returned" /\ t_out.raised) =>
        IF t_arg.t # "list" THEN t_out.msg = "Items must be a list"
        ELSE IF BadItems(t_arg) # {}
        THEN LET k == Least(BadItems(t_arg))
             IN  /\ \/ StartsWith(t_out.msg, "Item " \o ToString(k - 1) \o " ")
                    \/ StartsWith(t_out.msg, "Item " \o ToString(k - 1) \o ":")
                 /\ RuleOf(t_out.msg) = IF t_arg.l[k].t # "obj" THEN 1 ELSE 2
        ELSE IF Len(t_arg.l) > MaxTodos THEN RuleOf(t_out.msg) = 3
        ELSE RuleOf(t_out.msg) = 4 /\ 4 \in Violated(t_arg)

\* an item with a blank content stands before an item that is no dict, and
\* the rejection names the blank content
C20_Witness ==
    /\ t_pc = "returned"
    /\ t_out.raised
    /\ t_arg.t = "list"
    /\ Len(t_arg.l) = 2
    /\ t_arg.l[1].t = "obj"
    /\ t_arg.l[2].t # "obj"
    /\ t_out.msg = "Item 0: content required"

(***************************************************************************)
(* The conversation as the gateway is given it                             *)
(***************************************************************************)
\* the roles of h go user, assistant, user, ...
RolesAlternate(h) ==
    /\ h # <<>> => h[1].role = "user"
    /\ \A i \in 1..(Len(h) - 1) : h[i].role # h[i + 1].role

\* every assistant turn of h with a tool-call block has the turn of its
\* results right after it
CallsAnswered(h) ==
    \A i \in DOMAIN h :
        (h[i].role = "assistant" /\ tool_calls(h[i].content) # <<>>) =>
            i < Len(h) /\ IsResultTurn(h[i + 1])

\* C21: whenever the gateway is called, the conversation it is given starts
\* with a user turn, its roles alternate between user and assistant, and
\* every assistant turn with tool calls is followed at once by the turn of
\* its results.
C21_ConversationWellFormed ==
    pc = "awaiting_model" => RolesAlternate(history) /\ CallsAnswered(history)

\* the calls of history that have their result in the turn after them
RecordedCalls(h) ==
    UNION { {c \in {tool_calls(h[i].content)[j]
                     : j \in DOMAIN tool_calls(h[i].content)} :
                \E k \in DOMAIN h[i + 1].content :
                    h[i + 1].content[k].tool_use_id = c.id}
            : i \in Rounds(h) }

\* a write_file or edit_file call on the file is recorded
FileCallRecorded(h, path) ==
    \E c \in RecordedCalls(h) :
        /\ c.name \in {"write_file", "edit_file"}
        /\ "path" \in DOMAIN c.input
        /\ c.input["path"].t = "str"
        /\ Resolve(c.input["path"].v) = path

\* C22: whenever control has left agent_loop, by its return or by an error,
\* every file that is no longer what it was at the start has a write_file or
\* edit_file call on it in the conversation, with its result; a stored task
\* list has a TodoWrite call in the conversation, with its result; and the
\* counter counts the rounds of the conversation, the rounds of those calls
\* among them.
C22_EffectsRecorded ==
    pc = "input" =>
        /\ \A f \in fs \ InitFiles : FileCallRecorded(history, f.path)
        /\ todo_items # <<>> =>
              \E c \in RecordedCalls(history) : c.name = "TodoWrite"
        /\ rounds_without_todo = RoundsSinceTodo(history)
====
